---- MODULE Spec2Model ----
(***************************************************************************)
(* The board engine of rs-minesweeper (src/src/main.rs, mod board): the    *)
(* construction of a board, the command entry point push_state and the     *)
(* helpers it calls (uncover_tile with the first-click relocation,         *)
(* clear_zeros, end_game), as a state machine over the fields of Board.    *)
(*                                                                         *)
(* usize values are kept by their residue nearest 0: a value v < 0 stands  *)
(* for 2^64 + v, so that + and - are the wrapping operations of a build    *)
(* without overflow checks, and ULt is the unsigned comparison.            *)
(***************************************************************************)
EXTENDS Integers, Sequences, FiniteSets, TLC

\* Bounds of the model: the largest board, the most tiles of a board that
\* holds mines, and the most mines.
MaxWidth == 3
MaxHeight == 3
MaxMinedTiles == 6
MaxMines == 2

\* Bounds of the model of main with its clock thread: the most tiles of the
\* board it plays, the most messages waiting in the channel, and the
\* iterations of the clock's loop (1000 in the source).
GameMaxTiles == 2
MaxQueue == 2
MaxTicks == 2

VARIABLES
    width,            \* Board.width
    height,           \* main's height (the board keeps only tiles.len())
    mine_total,       \* Board.mine_total
    tiles,            \* Board.tiles: index 0..len-1 -> Tile
    won,              \* Board.won: "None", "Some(true)", "Some(false)"
    flag_total,       \* Board.flag_total
    flag_correct,     \* Board.flag_correct
    first_uncover,    \* Board.first_uncover
    new_result,       \* what Board::new returned: "Ok" or "Err"
    overflow_checks,  \* the build: TRUE panics on integer overflow, FALSE wraps
    panicked          \* the thread has panicked (unwrap on None, overflow)

vars == <<width, height, mine_total, tiles, won, flag_total, flag_correct,
          first_uncover, new_result, overflow_checks, panicked>>

\* main's event loop and the thread of launch_clock
VARIABLES
    cursor_pos,       \* the (u16, u16) inside Arc<Mutex<..>>
    cursor_lock,      \* who holds the Mutex: "free", "main", "clock"
    stdout_lock,      \* who holds the lock of stdout: "free", "main", "clock"
    chan,             \* the messages sent on main_tx and not yet received
    time,             \* launch_clock's time, the count the clock has painted
    key,              \* the key event main is handling, "none" between events
    main_pc,          \* where main is
    clock_pc          \* where the clock thread is

tvars == <<cursor_pos, cursor_lock, stdout_lock, chan, time, key, main_pc,
           clock_pc>>

gvars == <<vars, tvars>>

----------------------------------------------------------------------------
\* usize arithmetic

\* a < b on usize
ULt(a, b) ==
    IF a >= 0 /\ b >= 0 THEN a < b
    ELSE IF a >= 0 THEN TRUE
    ELSE IF b >= 0 THEN FALSE
    ELSE a < b

----------------------------------------------------------------------------
\* Sequence helpers (Vec and iterator adaptors)

InSeq(e, s) == \E k \in 1..Len(s) : s[k] = e

RECURSIVE Flatten(_)
Flatten(ss) == IF ss = <<>> THEN <<>> ELSE Head(ss) \o Flatten(Tail(ss))

\* itertools' unique(): the first occurrence of each element, in order
RECURSIVE UniqueFrom(_, _)
UniqueFrom(s, seen) ==
    IF s = <<>> THEN <<>>
    ELSE IF Head(s) \in seen THEN UniqueFrom(Tail(s), seen)
    ELSE <<Head(s)>> \o UniqueFrom(Tail(s), seen \cup {Head(s)})

Unique(s) == UniqueFrom(s, {})

----------------------------------------------------------------------------
\* Coordinates

get_manhattan ==
    << <<-1, -1>>, <<-1, 0>>, <<-1, 1>>, <<0, -1>>,
       <<0, 1>>, <<1, -1>>, <<1, 0>>, <<1, 1>> >>

get_2d(i, w) == <<i % w, i \div w>>

get_1d(x, y, w) == y * w + x

\* get_1d_manhattan without the clip at the right edge
get_1d_manhattan_unclipped(i, w) ==
    LET p == get_2d(i, w)
        shifted == [k \in 1..Len(get_manhattan) |->
                      <<get_manhattan[k][1] + p[1], get_manhattan[k][2] + p[2]>>]
        kept == SelectSeq(shifted, LAMBDA q : q[1] >= 0 /\ q[2] >= 0)
    IN  [k \in 1..Len(kept) |-> get_1d(kept[k][1], kept[k][2], w)]

\* The neighbours of index i: x is clipped on both sides, y below only; what
\* lies past the last row is an index past the end of tiles.
get_1d_manhattan(i, w) ==
    LET p == get_2d(i, w)
        shifted == [k \in 1..Len(get_manhattan) |->
                      <<get_manhattan[k][1] + p[1], get_manhattan[k][2] + p[2]>>]
        kept == SelectSeq(shifted, LAMBDA q : w > q[1] /\ q[1] >= 0 /\ q[2] >= 0)
    IN  [k \in 1..Len(kept) |-> get_1d(kept[k][1], kept[k][2], w)]

----------------------------------------------------------------------------
\* Construction

Tile_new(mine, mines_surrounding) ==
    [state |-> "Covered", mine |-> mine, mines_surrounding |-> mines_surrounding]

\* The outcomes of shuffle on mine_num true and total - mine_num false values
Shuffled(total, mine_num) ==
    {mv \in [0..(total - 1) -> BOOLEAN] :
        Cardinality({i \in 0..(total - 1) : mv[i]}) = mine_num}

\* Board::new on a shuffled mine_values: the tiles
Board_new_tiles(w, mine_values) ==
    LET mine_totals == [i \in DOMAIN mine_values |->
            LET around == get_1d_manhattan(i, w)
            IN  Cardinality({k \in 1..Len(around) :
                    around[k] \in DOMAIN mine_values /\ mine_values[around[k]]})]
    IN  [i \in DOMAIN mine_values |-> Tile_new(mine_values[i], mine_totals[i])]

\* Board::new that accepts a board with a mine on every tile
Board_new_result_all_mines(w, h, mine_num) ==
    IF w * h < mine_num THEN "Err" ELSE "Ok"

\* Board::new's result for the arguments: "Err" when no tile would be safe
Board_new_result(w, h, mine_num) ==
    IF w * h < mine_num THEN "Err"
    ELSE IF w * h = mine_num THEN "Err"
    ELSE "Ok"

----------------------------------------------------------------------------
\* The board as a value, for the helpers that take &mut self

Self ==
    [tiles |-> tiles, won |-> won, flag_total |-> flag_total,
     flag_correct |-> flag_correct, first_uncover |-> first_uncover,
     panicked |-> panicked]

\* end_game that uncovers the Flagged tiles like the others
end_game_uncover_all(b, w) ==
    [b EXCEPT
        !.won = IF w THEN "Some(true)" ELSE "Some(false)",
        !.tiles = [i \in DOMAIN b.tiles |->
            [b.tiles[i] EXCEPT !.state = "Uncovered"]]]

end_game(b, w) ==
    [b EXCEPT
        !.won = IF w THEN "Some(true)" ELSE "Some(false)",
        !.tiles = [i \in DOMAIN b.tiles |->
            [b.tiles[i] EXCEPT
                !.state = IF @ = "Flagged" THEN "FlagRevealed" ELSE "Uncovered"]]]

\* clear_zeros that leaves the non-zero tiles around the region Covered
RECURSIVE clear_zeros_loop_zeros_only(_, _)
clear_zeros_loop_zeros_only(ts, working) ==
    IF working = <<>> THEN ts
    ELSE
        LET t1 == [i \in DOMAIN ts |->
                     IF InSeq(i, working)
                     THEN [ts[i] EXCEPT !.state = "Uncovered"] ELSE ts[i]]
            around == Unique(Flatten([k \in 1..Len(working) |->
                                        get_1d_manhattan(working[k], width)]))
            surroundings == SelectSeq(around,
                LAMBDA i : i \in DOMAIN t1 /\ t1[i].state = "Covered")
            next == SelectSeq(surroundings,
                LAMBDA i : t1[i].mines_surrounding = 0)
        IN  clear_zeros_loop_zeros_only(t1, next)

\* clear_zeros that floods over the Flagged tiles as over the Covered ones
RECURSIVE clear_zeros_loop_over_flags(_, _)
clear_zeros_loop_over_flags(ts, working) ==
    IF working = <<>> THEN ts
    ELSE
        LET t1 == [i \in DOMAIN ts |->
                     IF InSeq(i, working)
                     THEN [ts[i] EXCEPT !.state = "Uncovered"] ELSE ts[i]]
            around == Unique(Flatten([k \in 1..Len(working) |->
                                        get_1d_manhattan(working[k], width)]))
            surroundings == SelectSeq(around,
                LAMBDA i : i \in DOMAIN t1
                           /\ t1[i].state \in {"Covered", "Flagged"})
            next == SelectSeq(surroundings,
                LAMBDA i : t1[i].mines_surrounding = 0)
            t2 == [i \in DOMAIN t1 |->
                     IF InSeq(i, surroundings) /\ t1[i].mines_surrounding # 0
                     THEN [t1[i] EXCEPT !.state = "Uncovered"] ELSE t1[i]]
        IN  clear_zeros_loop_over_flags(t2, next)

RECURSIVE clear_zeros_loop(_, _)
clear_zeros_loop(ts, working) ==
    IF working = <<>> THEN ts
    ELSE
        LET t1 == [i \in DOMAIN ts |->
                     IF InSeq(i, working)
                     THEN [ts[i] EXCEPT !.state = "Uncovered"] ELSE ts[i]]
            around == Unique(Flatten([k \in 1..Len(working) |->
                                        get_1d_manhattan(working[k], width)]))
            surroundings == SelectSeq(around,
                LAMBDA i : i \in DOMAIN t1 /\ t1[i].state = "Covered")
            next == SelectSeq(surroundings,
                LAMBDA i : t1[i].mines_surrounding = 0)
            t2 == [i \in DOMAIN t1 |->
                     IF InSeq(i, surroundings) /\ t1[i].mines_surrounding # 0
                     THEN [t1[i] EXCEPT !.state = "Uncovered"] ELSE t1[i]]
        IN  clear_zeros_loop(t2, next)

clear_zeros(b, starting_pos) ==
    [b EXCEPT !.tiles = clear_zeros_loop(b.tiles,
        <<get_1d(starting_pos[1], starting_pos[2], width)>>)]

\* for s in around: mines_surrounding -= 1 (a panic stops the loop)
RECURSIVE dec_surrounding(_, _, _)
dec_surrounding(b, around, k) ==
    IF k > Len(around) \/ b.panicked THEN b
    ELSE IF around[k] \notin DOMAIN b.tiles THEN dec_surrounding(b, around, k + 1)
    ELSE IF b.tiles[around[k]].mines_surrounding = 0 /\ overflow_checks
    THEN [b EXCEPT !.panicked = TRUE]
    ELSE dec_surrounding(
            [b EXCEPT !.tiles[around[k]].mines_surrounding = @ - 1], around, k + 1)

\* for s in around: mines_surrounding += 1
inc_surrounding(b, around) ==
    [b EXCEPT !.tiles = [i \in DOMAIN b.tiles |->
        IF InSeq(i, around)
        THEN [b.tiles[i] EXCEPT !.mines_surrounding = @ + 1] ELSE b.tiles[i]]]

\* The tail of uncover_tile without first_uncover = false
uncover_rest_keeps_first(b, x, y) ==
    LET tile_pos == get_1d(x, y, width)
        b1 == [b EXCEPT !.tiles[tile_pos].state = "Uncovered"]
    IN  IF b1.tiles[tile_pos].mines_surrounding = 0
        THEN clear_zeros(b1, <<x, y>>) ELSE b1

\* The tail of uncover_tile: the tile is uncovered, a zero floods
uncover_rest(b, x, y) ==
    LET tile_pos == get_1d(x, y, width)
        b1 == [b EXCEPT !.first_uncover = FALSE,
                        !.tiles[tile_pos].state = "Uncovered"]
    IN  IF b1.tiles[tile_pos].mines_surrounding = 0
        THEN clear_zeros(b1, <<x, y>>) ELSE b1

\* The first-click relocation; r is the draw of the shuffle, which puts any one
\* of the possible replacements first
relocate(b, tile_pos, r) ==
    LET b1 == [b EXCEPT !.tiles[tile_pos].mine = FALSE]
        b2 == dec_surrounding(b1, get_1d_manhattan(tile_pos, width), 1)
        n == Cardinality(DOMAIN b2.tiles)
        possible_replacements ==
            SelectSeq([k \in 1..n |-> k - 1], LAMBDA i : ~b2.tiles[i].mine)
        replacement == possible_replacements[(r % Len(possible_replacements)) + 1]
        b3 == [b2 EXCEPT !.tiles[replacement].mine = TRUE]
    IN  IF b2.panicked THEN b2
        ELSE inc_surrounding(b3, get_1d_manhattan(replacement, width))

\* uncover_tile without the first-click relocation
uncover_tile_no_relocation(b, x, y, r) ==
    IF b.tiles[get_1d(x, y, width)].mine
    THEN end_game(b, FALSE) ELSE uncover_rest(b, x, y)

uncover_tile(b, x, y, r) ==
    LET tile_pos == get_1d(x, y, width)
        tile == b.tiles[tile_pos]
    IN  IF tile.mine /\ b.first_uncover
        THEN LET b1 == relocate(b, tile_pos, r)
             IN  IF b1.panicked THEN b1 ELSE uncover_rest(b1, x, y)
        ELSE IF tile.mine THEN end_game(b, FALSE)
        ELSE uncover_rest(b, x, y)

\* The chord's loop stopping after the first neighbour it uncovers
RECURSIVE chord_loop_first_only(_, _, _, _)
chord_loop_first_only(b, coords, k, r) ==
    IF k > Len(coords) \/ b.panicked THEN b
    ELSE IF coords[k] \in DOMAIN b.tiles /\ b.tiles[coords[k]].state = "Covered"
    THEN LET c == get_2d(coords[k], width)
         IN  uncover_tile(b, c[1], c[2], r)
    ELSE chord_loop_first_only(b, coords, k + 1, r)

\* The chord's loop over the neighbours of an uncovered tile
RECURSIVE chord_loop(_, _, _, _)
chord_loop(b, coords, k, r) ==
    IF k > Len(coords) \/ b.panicked THEN b
    ELSE IF coords[k] \in DOMAIN b.tiles /\ b.tiles[coords[k]].state = "Covered"
    THEN LET c == get_2d(coords[k], width)
         IN  chord_loop(uncover_tile(b, c[1], c[2], r), coords, k + 1, r)
    ELSE chord_loop(b, coords, k + 1, r)

\* The chord without the comparison of the flags with the count
chord_always(b, x, y, r) ==
    chord_loop(b, get_1d_manhattan(get_1d(x, y, width), width), 1, r)

chord(b, x, y, r) ==
    LET old_tile == b.tiles[get_1d(x, y, width)]
        manhattan_tile_coords == get_1d_manhattan(get_1d(x, y, width), width)
        flags_surrounding == Cardinality({k \in 1..Len(manhattan_tile_coords) :
            /\ manhattan_tile_coords[k] \in DOMAIN b.tiles
            /\ b.tiles[manhattan_tile_coords[k]].state = "Flagged"})
    IN  IF flags_surrounding = old_tile.mines_surrounding
        THEN chord_loop(b, manhattan_tile_coords, 1, r) ELSE b

\* unflag that forgets flag_total -= 1
unflag_keeps_total(b, x, y) ==
    LET pos == get_1d(x, y, width)
        b2 == [b EXCEPT !.tiles[pos].state = "Covered"]
    IN  IF ~b2.tiles[pos].mine THEN b2
        ELSE IF b2.flag_correct = 0 /\ overflow_checks
        THEN [b2 EXCEPT !.panicked = TRUE]
        ELSE [b2 EXCEPT !.flag_correct = @ - 1]

\* (State::Flagged, PushState::Flag)
unflag(b, x, y) ==
    LET pos == get_1d(x, y, width)
        b1 == [b EXCEPT !.flag_total = @ - 1]
        b2 == [b1 EXCEPT !.tiles[pos].state = "Covered"]
    IN  IF b.flag_total = 0 /\ overflow_checks THEN [b EXCEPT !.panicked = TRUE]
        ELSE IF ~b2.tiles[pos].mine THEN b2
        ELSE IF b2.flag_correct = 0 /\ overflow_checks
        THEN [b2 EXCEPT !.panicked = TRUE]
        ELSE [b2 EXCEPT !.flag_correct = @ - 1]

\* flag with <= for < in the quota test
flag_off_by_one(b, x, y) ==
    LET pos == get_1d(x, y, width)
    IN  IF ~ULt(mine_total, b.flag_total)
        THEN [b EXCEPT !.flag_total = @ + 1,
                       !.tiles[pos].state = "Flagged",
                       !.flag_correct = IF b.tiles[pos].mine THEN @ + 1 ELSE @]
        ELSE b

\* (State::Covered, PushState::Flag)
flag(b, x, y) ==
    LET pos == get_1d(x, y, width)
    IN  IF ULt(b.flag_total, mine_total)
        THEN [b EXCEPT !.flag_total = @ + 1,
                       !.tiles[pos].state = "Flagged",
                       !.flag_correct = IF b.tiles[pos].mine THEN @ + 1 ELSE @]
        ELSE b

\* win_check that wins by flags only
win_check_flags_only(b) ==
    IF b.won = "None" /\ b.flag_correct = mine_total
    THEN end_game(b, TRUE) ELSE b

\* The end of push_state: the win check
win_check(b) ==
    LET uncover_correct == Cardinality({i \in DOMAIN b.tiles :
            b.tiles[i].state = "Uncovered" /\ ~b.tiles[i].mine})
    IN  IF /\ b.won = "None"
           /\ \/ b.flag_correct = mine_total
              \/ uncover_correct = Cardinality(DOMAIN b.tiles) - mine_total
        THEN end_game(b, TRUE) ELSE b

\* The match with the chord on (State::Uncovered, PushState::Uncover) only
dispatch_chord_on_uncover(b, x, y, update, r) ==
    LET old_tile == b.tiles[get_1d(x, y, width)]
    IN  CASE old_tile.state = "Covered" /\ update = "Uncover" ->
                uncover_tile(b, x, y, r)
          [] old_tile.state = "Uncovered" /\ update = "Uncover" ->
                chord(b, x, y, r)
          [] old_tile.state = "Flagged" /\ update = "Flag" -> unflag(b, x, y)
          [] old_tile.state = "Covered" /\ update = "Flag" -> flag(b, x, y)
          [] OTHER -> b

\* The match of push_state on (old_tile.state, update)
dispatch(b, x, y, update, r) ==
    LET old_tile == b.tiles[get_1d(x, y, width)]
    IN  CASE old_tile.state = "Covered" /\ update = "Uncover" ->
                uncover_tile(b, x, y, r)
          [] old_tile.state = "Uncovered" -> chord(b, x, y, r)
          [] old_tile.state = "Flagged" /\ update = "Flag" -> unflag(b, x, y)
          [] old_tile.state = "Covered" /\ update = "Flag" -> flag(b, x, y)
          [] OTHER -> b

\* push_state without the early return on a finished game
push_state_no_guard(b, x, y, update, r) ==
    IF get_1d(x, y, width) \notin DOMAIN b.tiles
    THEN [b EXCEPT !.panicked = TRUE]
    ELSE LET b1 == dispatch(b, x, y, update, r)
         IN  IF b1.panicked THEN b1 ELSE win_check(b1)

\* push_state without the win check at its end
push_state_no_win_check(b, x, y, update, r) ==
    IF b.won # "None" THEN b
    ELSE IF get_1d(x, y, width) \notin DOMAIN b.tiles
    THEN [b EXCEPT !.panicked = TRUE]
    ELSE dispatch(b, x, y, update, r)

push_state(b, x, y, update, r) ==
    IF b.won # "None" THEN b
    ELSE IF get_1d(x, y, width) \notin DOMAIN b.tiles
    THEN [b EXCEPT !.panicked = TRUE]
    ELSE LET b1 == dispatch(b, x, y, update, r)
         IN  IF b1.panicked THEN b1 ELSE win_check(b1)

----------------------------------------------------------------------------
\* The state machine

\* The arguments a caller may pass: one past the last column and row too
Xs == 0..width
Ys == 0..height

\* The draws of the shuffle in uncover_tile: it runs only on a first uncover
Draws == IF first_uncover THEN DOMAIN tiles ELSE {0}

\* The arguments of Board::new that are drawn: every mine-free board up to
\* MaxWidth x MaxHeight, and with mines the boards of at most MaxMinedTiles
\* main before its loop: the cursor at (0, 0), the channel empty, the clock
\* thread spawned and not yet run (main.rs:205-208, 304-305)
ThreadsInit ==
    /\ cursor_pos = <<0, 0>>
    /\ cursor_lock = "free"
    /\ stdout_lock = "free"
    /\ chan = << >>
    /\ time = 0
    /\ key = "none"
    /\ main_pc = "read"
    /\ clock_pc = "recv"

NewArgs ==
    {a \in (0..MaxWidth) \X (0..MaxHeight) \X (0..MaxMines) :
        a[3] = 0 \/ a[1] * a[2] <= MaxMinedTiles}

Init ==
    \E a \in NewArgs, oc \in BOOLEAN :
      LET d == <<a[1], a[2]>>
          m == a[3]
      IN
        /\ width = d[1]
        /\ height = d[2]
        /\ mine_total = m
        /\ new_result = Board_new_result(d[1], d[2], m)
        /\ overflow_checks = oc
        /\ IF Board_new_result(d[1], d[2], m) = "Ok"
           THEN \E mine_values \in Shuffled(d[1] * d[2], m) :
                    tiles = Board_new_tiles(d[1], mine_values)
           ELSE tiles = << >>
        /\ won = "None"
        /\ flag_total = 0
        /\ flag_correct = 0
        /\ first_uncover = TRUE
        /\ panicked = FALSE
        /\ ThreadsInit

Apply(b) ==
    /\ tiles' = b.tiles
    /\ won' = b.won
    /\ flag_total' = b.flag_total
    /\ flag_correct' = b.flag_correct
    /\ first_uncover' = b.first_uncover
    /\ panicked' = b.panicked
    /\ UNCHANGED <<width, height, mine_total, new_result, overflow_checks>>

\* push_state(x, y, PushState::Uncover)
Uncover ==
    /\ new_result = "Ok"
    /\ ~panicked
    /\ \E x \in Xs, y \in Ys, r \in Draws :
          Apply(push_state(Self, x, y, "Uncover", r))
    /\ UNCHANGED tvars

\* push_state(x, y, PushState::Flag)
Flag ==
    /\ new_result = "Ok"
    /\ ~panicked
    /\ \E x \in Xs, y \in Ys : Apply(push_state(Self, x, y, "Flag", 0))
    /\ UNCHANGED tvars

Next == Uncover \/ Flag

Spec == Init /\ [][Next]_vars

----------------------------------------------------------------------------
\* main's event loop and the clock thread. The drawing on the terminal is
\* left out but for the count the clock paints; a statement that locks
\* stdout for its own duration is one step that waits for the lock.

\* The arguments main passes to Board::new: it has returned before if
\* mine_num >= width * height
GameArgs ==
    {a \in (1..GameMaxTiles) \X (1..GameMaxTiles) \X (0..GameMaxTiles) :
        a[1] * a[2] <= GameMaxTiles /\ a[3] < a[1] * a[2]}

GameInit ==
    /\ \E a \in GameArgs, oc \in BOOLEAN :
          /\ width = a[1]
          /\ height = a[2]
          /\ mine_total = a[3]
          /\ new_result = Board_new_result(a[1], a[2], a[3])
          /\ overflow_checks = oc
          /\ \E mine_values \in Shuffled(a[1] * a[2], a[3]) :
                tiles = Board_new_tiles(a[1], mine_values)
    /\ won = "None"
    /\ flag_total = 0
    /\ flag_correct = 0
    /\ first_uncover = TRUE
    /\ panicked = FALSE
    /\ ThreadsInit

\* The keys main's match has an arm for
MoveKeys == {"Right", "Left", "Up", "Down"}
CommandKeys == {"q", "e"}
Keys == {"Esc"} \cup MoveKeys \cup CommandKeys

\* The test of a movement arm on the locked position
CanMove(k) ==
    CASE k = "Right" -> cursor_pos[1] < width - 1
      [] k = "Left" -> cursor_pos[1] > 0
      [] k = "Up" -> cursor_pos[2] > 0
      [] k = "Down" -> cursor_pos[2] < height - 1

\* The position a movement arm writes
Moved(k) ==
    CASE k = "Right" -> <<cursor_pos[1] + 1, cursor_pos[2]>>
      [] k = "Left" -> <<cursor_pos[1] - 1, cursor_pos[2]>>
      [] k = "Up" -> <<cursor_pos[1], cursor_pos[2] - 1>>
      [] k = "Down" -> <<cursor_pos[1], cursor_pos[2] + 1>>

\* read() returns a key event; the channel of the model holds MaxQueue
main_read ==
    /\ main_pc = "read"
    /\ \E k \in Keys :
          /\ k \in CommandKeys => Len(chan) < MaxQueue
          /\ key' = k
          /\ main_pc' = IF k = "Esc" THEN "quit" ELSE "lock"
    /\ UNCHANGED <<vars, cursor_pos, cursor_lock, stdout_lock, chan, time,
                   clock_pc>>

\* The arm of Esc and Ctrl-q: clears the screen under the lock of stdout
main_quit ==
    /\ main_pc = "quit"
    /\ stdout_lock = "free"
    /\ main_pc' = "after_loop"
    /\ key' = "none"
    /\ UNCHANGED <<vars, cursor_pos, cursor_lock, stdout_lock, chan, time,
                   clock_pc>>

\* cursor_pos.lock().unwrap() at the head of the other arms
main_lock_pos ==
    /\ main_pc = "lock"
    /\ cursor_lock = "free"
    /\ cursor_lock' = "main"
    /\ main_pc' = IF key \in MoveKeys THEN "move" ELSE "push"
    /\ UNCHANGED <<vars, cursor_pos, stdout_lock, chan, time, key, clock_pc>>

\* A movement arm: under the Mutex, lock stdout to move the terminal's
\* cursor and write the position; the guard is dropped at the arm's end
main_move ==
    /\ main_pc = "move"
    /\ IF CanMove(key)
       THEN stdout_lock = "free" /\ cursor_pos' = Moved(key)
       ELSE UNCHANGED cursor_pos
    /\ cursor_lock' = "free"
    /\ key' = "none"
    /\ main_pc' = "read"
    /\ UNCHANGED <<vars, stdout_lock, chan, time, clock_pc>>

\* working_board.push_state(pos.0, pos.1, ..) of the arms of q and e; a
\* panic of main ends the process
main_push ==
    /\ main_pc = "push"
    /\ \E r \in Draws :
          LET b == push_state(Self, cursor_pos[1], cursor_pos[2],
                              IF key = "q" THEN "Uncover" ELSE "Flag", r)
          IN  /\ Apply(b)
              /\ main_pc' = IF b.panicked THEN "exited" ELSE "refresh"
    /\ UNCHANGED <<cursor_pos, cursor_lock, stdout_lock, chan, time, key,
                   clock_pc>>

\* refresh_board up to its send: locks stdout, prints the board and sends
\* false if the game has ended, true if not; a send to a receiver that was
\* dropped fails and is ignored
main_refresh ==
    /\ main_pc = "refresh"
    /\ stdout_lock = "free"
    /\ stdout_lock' = "main"
    /\ chan' = IF clock_pc = "returned" THEN chan
               ELSE Append(chan, won = "None")
    /\ main_pc' = "refresh_end"
    /\ UNCHANGED <<vars, cursor_pos, cursor_lock, time, key, clock_pc>>

\* refresh_board returns and drops the lock of stdout
main_refresh_return ==
    /\ main_pc = "refresh_end"
    /\ stdout_lock' = "free"
    /\ main_pc' = "arm_end"
    /\ UNCHANGED <<vars, cursor_pos, cursor_lock, chan, time, key, clock_pc>>

\* The end of the arms of q and e: if the game has ended, lock stdout once
\* more and break; the guard of the Mutex is dropped
main_arm_end ==
    /\ main_pc = "arm_end"
    /\ won # "None" => stdout_lock = "free"
    /\ cursor_lock' = "free"
    /\ key' = "none"
    /\ main_pc' = IF won # "None" THEN "after_loop" ELSE "read"
    /\ UNCHANGED <<vars, cursor_pos, stdout_lock, chan, time, clock_pc>>

\* After the loop: one more write to stdout, then main returns and the
\* process ends, the clock thread with it
main_exit ==
    /\ main_pc = "after_loop"
    /\ stdout_lock = "free"
    /\ main_pc' = "exited"
    /\ UNCHANGED <<vars, cursor_pos, cursor_lock, stdout_lock, chan, time, key,
                   clock_pc>>

\* rx.recv().unwrap(): blocks for the first message, returns on false
clock_recv ==
    /\ main_pc # "exited"
    /\ clock_pc = "recv"
    /\ chan # << >>
    /\ chan' = Tail(chan)
    /\ clock_pc' = IF Head(chan) THEN "sleep" ELSE "returned"
    /\ UNCHANGED <<vars, cursor_pos, cursor_lock, stdout_lock, time, key,
                   main_pc>>

\* The sleep ends and rx.try_recv() takes one message if there is one: the
\* thread returns if it is false, and goes on to paint on true and on none
clock_wake ==
    /\ main_pc # "exited"
    /\ clock_pc = "sleep"
    /\ chan' = IF chan = << >> THEN chan ELSE Tail(chan)
    /\ clock_pc' = IF chan # << >> /\ ~Head(chan) THEN "returned"
                   ELSE "lock_stdout"
    /\ UNCHANGED <<vars, cursor_pos, cursor_lock, stdout_lock, time, key,
                   main_pc>>

\* stdout.lock()
clock_lock_stdout ==
    /\ main_pc # "exited"
    /\ clock_pc = "lock_stdout"
    /\ stdout_lock = "free"
    /\ stdout_lock' = "clock"
    /\ clock_pc' = "lock_pos"
    /\ UNCHANGED <<vars, cursor_pos, cursor_lock, chan, time, key, main_pc>>

\* cursor_pos.lock().unwrap(), time += 1, the repaint, and the end of the
\* iteration, where both guards are dropped; the loop ends after MaxTicks
clock_paint ==
    /\ main_pc # "exited"
    /\ clock_pc = "lock_pos"
    /\ cursor_lock = "free"
    /\ time' = time + 1
    /\ stdout_lock' = "free"
    /\ clock_pc' = IF time + 1 < MaxTicks THEN "sleep" ELSE "returned"
    /\ UNCHANGED <<vars, cursor_pos, cursor_lock, chan, key, main_pc>>

GameNext ==
    \/ main_read \/ main_quit \/ main_lock_pos \/ main_move \/ main_push
    \/ main_refresh \/ main_refresh_return \/ main_arm_end \/ main_exit
    \/ clock_recv \/ clock_wake \/ clock_lock_stdout \/ clock_paint

GameSpec == GameInit /\ [][GameNext]_gvars

----------------------------------------------------------------------------
\* Vocabulary of the properties, stated on the grid and not through the
\* index arithmetic of the code

Len_tiles == Cardinality(DOMAIN tiles)

\* The coordinates a caller passes for a tile of the grid
InXs == 0..(width - 1)
InYs == 0..(height - 1)

Column(i) == i % width
Row(i) == i \div width

Abs(n) == IF n < 0 THEN -n ELSE n

\* i and j are distinct cells of the grid at Chebyshev distance 1
Adjacent(i, j) ==
    /\ i # j
    /\ Abs(Column(i) - Column(j)) <= 1
    /\ Abs(Row(i) - Row(j)) <= 1

Neighbours(i) == {j \in DOMAIN tiles : Adjacent(i, j)}

MineCountAround(ts, i) == Cardinality({j \in Neighbours(i) : ts[j].mine})

Running == new_result = "Ok" /\ ~panicked

\* A board as Board::new returns it (or brought back to that by unflagging)
Fresh ==
    /\ Running
    /\ won = "None"
    /\ first_uncover
    /\ flag_total = 0
    /\ flag_correct = 0
    /\ \A i \in DOMAIN tiles : tiles[i].state = "Covered"

----------------------------------------------------------------------------
\* C1: in every reachable state of a constructed board exactly mine_total
\* tiles are mines and every tile's mines_surrounding is the number of mines
\* among its neighbours on the grid (also after a first-click relocation).
C1_MinesAndCounts ==
    new_result = "Ok" =>
        /\ Len_tiles = width * height
        /\ Cardinality({i \in DOMAIN tiles : tiles[i].mine}) = mine_total
        /\ \A i \in DOMAIN tiles :
              tiles[i].mines_surrounding = MineCountAround(tiles, i)

\* A game under way after a relocation (a mine lies uncovered and the game
\* goes on, which only the relocation can produce), with a count of 2
C1_Witness ==
    /\ Running /\ won = "None"
    /\ \E i \in DOMAIN tiles : tiles[i].mine /\ tiles[i].state = "Uncovered"
    /\ \E i \in DOMAIN tiles : tiles[i].mines_surrounding = 2

\* C2: on a fresh board, Uncover of any tile of the grid, whatever the mine
\* layout and the draw of the relocation, does not leave won = Some(false).
C2_FirstClickSafe ==
    Fresh =>
        \A x \in InXs, y \in InYs, r \in Draws :
            push_state(Self, x, y, "Uncover", r).won # "Some(false)"

\* The first command was an Uncover of a mine: no flag was placed, the game
\* goes on, and the single uncovered tile holds a mine
C2_Witness ==
    /\ Running /\ won = "None" /\ ~first_uncover /\ flag_total = 0
    /\ \E i \in DOMAIN tiles :
          /\ tiles[i].mine /\ tiles[i].state = "Uncovered"
          /\ \A j \in DOMAIN tiles \ {i} : tiles[j].state = "Covered"

\* C3: when the first Uncover targets a mine, the mine is moved to another
\* cell: the uncovered tile is not a mine afterwards, whatever the draw.
C3_MineMovedAway ==
    (Running /\ won = "None" /\ first_uncover) =>
        \A x \in InXs, y \in InYs, r \in Draws :
            LET pos == get_1d(x, y, width)
            IN  (tiles[pos].state = "Covered" /\ tiles[pos].mine) =>
                    ~push_state(Self, x, y, "Uncover", r).tiles[pos].mine

----------------------------------------------------------------------------
\* The zero regions of the grid

\* The least set holding S and closed under stepping to an adjacent tile of Z
RECURSIVE Closure(_, _)
Closure(S, Z) ==
    LET T == S \cup {j \in Z : \E i \in S : Adjacent(i, j)}
    IN  IF T = S THEN S ELSE Closure(T, Z)

ZeroTiles == {i \in DOMAIN tiles : tiles[i].mines_surrounding = 0}

CoveredTiles == {i \in DOMAIN tiles : tiles[i].state = "Covered"}

\* The maximal 8-connected region of zero-count tiles that holds pos, with the
\* non-zero tiles adjacent to it
ZeroRegionWithBorder(pos) ==
    LET region == Closure({pos}, ZeroTiles)
    IN  region \cup {j \in DOMAIN tiles : \E i \in region : Adjacent(i, j)}

\* The same over the Covered tiles only: the region is connected through
\* Covered zero-count tiles, and its border is the Covered tiles adjacent to it
CoveredZeroRegionWithBorder(pos) ==
    LET region == Closure({pos}, ZeroTiles \cap CoveredTiles)
    IN  region \cup {j \in CoveredTiles : \E i \in region : Adjacent(i, j)}

\* What end_game makes of the tile states
Revealed(ts) ==
    [i \in DOMAIN ts |->
        IF ts[i].state = "Flagged" THEN "FlagRevealed" ELSE "Uncovered"]

States(ts) == [i \in DOMAIN ts |-> ts[i].state]

\* An Uncover of (x, y) that starts a flood: a Covered safe tile of count 0
StartsFlood(x, y) ==
    LET pos == get_1d(x, y, width)
    IN  /\ tiles[pos].state = "Covered"
        /\ ~tiles[pos].mine
        /\ tiles[pos].mines_surrounding = 0

\* C4 as claimed: the flood uncovers exactly the maximal zero region and the
\* non-zero tiles adjacent to it, and no other tile changes state, also when
\* tiles in or next to the region are Flagged. (Read in the claim's favour:
\* only of a command after which the game goes on, so that the reveal-all of
\* a won game does not count against it.)
C4_FloodExactRegion ==
    (Running /\ won = "None") =>
        \A x \in InXs, y \in InYs :
            StartsFlood(x, y) =>
                LET b == push_state(Self, x, y, "Uncover", 0)
                    region == ZeroRegionWithBorder(get_1d(x, y, width))
                IN  b.won = "None" =>
                        \A i \in DOMAIN tiles :
                            b.tiles[i].state =
                                IF i \in region THEN "Uncovered"
                                ELSE tiles[i].state

\* C4 as amended: the flood runs over Covered tiles only. While the game goes
\* on, the tiles that change are exactly the Covered tiles of the region that
\* is connected through Covered zero-count tiles and the Covered tiles
\* adjacent to it, all Uncovered; Flagged tiles stay Flagged. When the command
\* wins the game instead, end_game reveals the whole board. It never loses.
C4_FloodCoveredRegion ==
    (Running /\ won = "None") =>
        \A x \in InXs, y \in InYs :
            StartsFlood(x, y) =>
                LET b == push_state(Self, x, y, "Uncover", 0)
                    region == CoveredZeroRegionWithBorder(get_1d(x, y, width))
                IN  /\ ~b.panicked
                    /\ b.won # "Some(false)"
                    /\ b.won = "None" =>
                         \A i \in DOMAIN tiles :
                            b.tiles[i].state =
                                IF i \in region THEN "Uncovered"
                                ELSE tiles[i].state
                    /\ b.won = "Some(true)" => States(b.tiles) = Revealed(tiles)

\* A flood has run around a flag: a Flagged zero-count tile next to an
\* Uncovered zero-count tile, and next to a Covered tile the flood did not
\* reach, in a game that goes on
C4_Witness ==
    /\ Running /\ won = "None"
    /\ \E f \in ZeroTiles, u \in ZeroTiles :
          /\ tiles[f].state = "Flagged"
          /\ tiles[u].state = "Uncovered"
          /\ Adjacent(f, u)
          /\ \E c \in CoveredTiles : Adjacent(f, c)

\* C5 as claimed: with won = None and flag_total = mine_total (mine_total = 0
\* included), Flag on a Covered tile leaves the whole board as it is.
C5_FlagQuotaNoop ==
    (Running /\ won = "None" /\ flag_total = mine_total) =>
        \A x \in InXs, y \in InYs :
            tiles[get_1d(x, y, width)].state = "Covered" =>
                push_state(Self, x, y, "Flag", 0) = Self

\* C5 as amended: the same on a board with at least one mine.
C5_FlagQuotaNoopMined ==
    (Running /\ won = "None" /\ flag_total = mine_total /\ mine_total >= 1) =>
        \A x \in InXs, y \in InYs :
            tiles[get_1d(x, y, width)].state = "Covered" =>
                push_state(Self, x, y, "Flag", 0) = Self

\* The quota is used up on a mined board and a Covered tile is left to flag
C5_Witness ==
    /\ Running /\ won = "None"
    /\ mine_total >= 1 /\ flag_total = mine_total
    /\ CoveredTiles # {}

AllMinesFlagged(ts) == \A i \in DOMAIN ts : ts[i].mine => ts[i].state = "Flagged"

NoSafeFlagged(ts) == \A i \in DOMAIN ts : ts[i].state = "Flagged" => ts[i].mine

\* C6: after any command, whenever every mine is Flagged and no safe tile is
\* Flagged, won is Some(true).
C6_WinViaFlags ==
    Running =>
        \A x \in InXs, y \in InYs, u \in {"Uncover", "Flag"}, r \in Draws :
            LET b == push_state(Self, x, y, u, r)
            IN  (~b.panicked /\ AllMinesFlagged(b.tiles) /\ NoSafeFlagged(b.tiles))
                    => b.won = "Some(true)"

AllSafeUncovered(ts) ==
    \A i \in DOMAIN ts : ~ts[i].mine => ts[i].state = "Uncovered"

\* The chord on pos goes ahead: as many Flagged neighbours as the count
ChordMatches(pos) ==
    Cardinality({j \in Neighbours(pos) : tiles[j].state = "Flagged"})
        = tiles[pos].mines_surrounding

\* The command reveals a mine: Uncover of a Covered mine after the first
\* uncover, or a chord that goes ahead with a Covered mine among the neighbours
RevealsMine(x, y, u) ==
    LET pos == get_1d(x, y, width)
    IN  \/ /\ u = "Uncover"
           /\ tiles[pos].state = "Covered" /\ tiles[pos].mine /\ ~first_uncover
        \/ /\ tiles[pos].state = "Uncovered"
           /\ ChordMatches(pos)
           /\ \E j \in Neighbours(pos) :
                tiles[j].state = "Covered" /\ tiles[j].mine

\* C7: a completed command never leaves won = None with every safe tile
\* Uncovered; and unless the command revealed a mine, won is then Some(true).
C7_WinViaReveal ==
    (Running /\ won = "None") =>
        \A x \in InXs, y \in InYs, u \in {"Uncover", "Flag"}, r \in Draws :
            LET b == push_state(Self, x, y, u, r)
            IN  (~b.panicked /\ AllSafeUncovered(b.tiles)) =>
                    /\ b.won # "None"
                    /\ ~RevealsMine(x, y, u) => b.won = "Some(true)"

\* A game on a mined board won by uncovering, not by flags
C7_Witness ==
    /\ Running /\ won = "Some(true)"
    /\ mine_total >= 1 /\ flag_correct # mine_total
    /\ AllSafeUncovered(tiles)

\* C8: once first_uncover is false, an Uncover that reaches a Covered mine,
\* directly or through a chord, sets won = Some(false) and leaves every tile
\* that was Flagged FlagRevealed and every other tile Uncovered.
C8_Loss ==
    (Running /\ won = "None" /\ ~first_uncover) =>
        \A x \in InXs, y \in InYs :
            LET pos == get_1d(x, y, width)
                b == push_state(Self, x, y, "Uncover", 0)
            IN  (\/ tiles[pos].state = "Covered" /\ tiles[pos].mine
                 \/ /\ tiles[pos].state = "Uncovered"
                    /\ ChordMatches(pos)
                    /\ \E j \in Neighbours(pos) :
                         tiles[j].state = "Covered" /\ tiles[j].mine)
                => /\ b.won = "Some(false)"
                   /\ States(b.tiles) = Revealed(tiles)
                   /\ ~b.panicked

\* A lost game whose reveal-all turned a flag into FlagRevealed and showed a
\* safe tile that the flag had wrongly marked
C8_Witness ==
    /\ Running /\ won = "Some(false)"
    /\ \E i \in DOMAIN tiles : tiles[i].state = "FlagRevealed" /\ ~tiles[i].mine
    /\ \E i \in DOMAIN tiles : tiles[i].state = "Uncovered" /\ tiles[i].mine

\* C9: once won is Some, every further push_state, whatever the coordinates
\* (also out of range) and the update, leaves the whole board as it is.
C9_TerminalNoop ==
    (Running /\ won # "None") =>
        \A x \in Xs, y \in Ys, u \in {"Uncover", "Flag"}, r \in Draws :
            push_state(Self, x, y, u, r) = Self

\* A game won by flags, its flags revealed
C9_Witness ==
    /\ Running /\ won = "Some(true)"
    /\ mine_total >= 1 /\ flag_correct = mine_total
    /\ \E i \in DOMAIN tiles : tiles[i].state = "FlagRevealed"

\* C10: on a fresh board without mines, of any width and height >= 1, Uncover
\* of any tile leaves every tile Uncovered and won = Some(true).
C10_MineFreeClear ==
    (Fresh /\ mine_total = 0) =>
        \A x \in InXs, y \in InYs, r \in Draws :
            LET b == push_state(Self, x, y, "Uncover", r)
            IN  /\ b.won = "Some(true)"
                /\ \A i \in DOMAIN b.tiles : b.tiles[i].state = "Uncovered"
                /\ ~b.panicked

\* The 3 x 3 board without mines, cleared and won
C10_Witness ==
    /\ Running /\ won = "Some(true)" /\ mine_total = 0
    /\ width = 3 /\ height = 3
    /\ \A i \in DOMAIN tiles : tiles[i].state = "Uncovered"

----------------------------------------------------------------------------
\* Counting tiles

FlaggedTiles(ts) == {i \in DOMAIN ts : ts[i].state = "Flagged"}

FlagRevealedTiles(ts) == {i \in DOMAIN ts : ts[i].state = "FlagRevealed"}

\* C11: Board::new returns an error exactly when mine_total >= width*height
\* (a board without tiles included); otherwise the board has width*height
\* tiles, all Covered, flag_total = flag_correct = 0, won = None and
\* first_uncover = true. What construction fixed is never changed.
C11_NewBoard ==
    /\ new_result = "Err" <=> mine_total >= width * height
    /\ new_result = "Ok" =>
         /\ Len_tiles = width * height
         /\ \A i \in DOMAIN tiles : tiles[i].state = "Covered"
         /\ flag_total = 0 /\ flag_correct = 0
         /\ won = "None"
         /\ first_uncover
         /\ ~panicked
    /\ [][/\ UNCHANGED <<width, height, mine_total, new_result>>
          /\ DOMAIN tiles' = DOMAIN tiles]_vars

\* Board::new refused a board whose every tile would hold a mine
C11_Witness ==
    /\ new_result = "Err"
    /\ mine_total >= 1 /\ mine_total = width * height

\* C12: on an Unresolved board, push_state with x >= width or y >= height
\* fails (here: panics) and changes no tile and no counter; it never acts on
\* a tile of the grid.
C12_OutOfBounds ==
    (Running /\ won = "None") =>
        \A x \in Xs, y \in Ys, u \in {"Uncover", "Flag"}, r \in Draws :
            (x >= width \/ y >= height) =>
                LET b == push_state(Self, x, y, u, r)
                IN  /\ b.panicked
                    /\ [b EXCEPT !.panicked = FALSE] = Self

\* C13: in every reachable state with won = None, flag_correct is the number
\* of tiles that are Flagged and mines, hence at most flag_total, also when
\* flags were placed before a first uncover that relocates a mine.
C13_FlagCorrect ==
    (Running /\ won = "None") =>
        /\ flag_correct =
             Cardinality({i \in FlaggedTiles(tiles) : tiles[i].mine})
        /\ flag_correct <= flag_total

\* C14 as claimed: in every reachable state, also after the game has ended,
\* flag_total is the number of Flagged tiles, FlagRevealed tiles not counted.
C14_FlagTotalFlagged ==
    new_result = "Ok" => flag_total = Cardinality(FlaggedTiles(tiles))

\* C14 as amended: while won = None flag_total is the number of Flagged
\* tiles; once the game has ended no tile is Flagged and flag_total, which
\* end_game leaves as it was, is the number of FlagRevealed tiles.
C14_FlagTotalPlaced ==
    new_result = "Ok" =>
        /\ won = "None" =>
             /\ flag_total = Cardinality(FlaggedTiles(tiles))
             /\ FlagRevealedTiles(tiles) = {}
        /\ won # "None" =>
             /\ flag_total = Cardinality(FlagRevealedTiles(tiles))
             /\ FlaggedTiles(tiles) = {}

\* A finished game whose flags were turned into FlagRevealed: flag_total
\* still counts them
C14_Witness ==
    /\ Running /\ won # "None"
    /\ flag_total = 2
    /\ Cardinality(FlagRevealedTiles(tiles)) = 2

----------------------------------------------------------------------------
\* Transitions of a tile's state

\* The changes of one tile's state a command may make; ends says that the
\* command ends the game
LegalChange(s, t, ends) ==
    \/ s = t
    \/ s = "Covered" /\ t = "Uncovered"
    \/ s = "Covered" /\ t = "Flagged" /\ ~ends
    \/ s = "Flagged" /\ t = "Covered" /\ ~ends
    \/ s = "Flagged" /\ t = "FlagRevealed" /\ ends

\* C15 as claimed: across every command each tile's state changes only along
\* Covered -> Uncovered, Covered -> Flagged, Flagged -> Covered or, only in a
\* command that ends the game, Flagged -> FlagRevealed; Uncovered and
\* FlagRevealed are never left, and no tile is FlagRevealed while won = None.
C15_TileTransitions ==
    [][/\ \A i \in DOMAIN tiles :
            LegalChange(tiles[i].state, tiles'[i].state,
                        won = "None" /\ won' # "None")
       /\ won' = "None" => FlagRevealedTiles(tiles') = {}]_vars

\* C15 as amended: as above, and the Flag command that ends the game takes
\* its target from Covered through Flagged to FlagRevealed within the one
\* command, so that across that command the tile goes Covered -> FlagRevealed.
C15_TileTransitionsComposed ==
    [][/\ \A i \in DOMAIN tiles :
            \/ LegalChange(tiles[i].state, tiles'[i].state,
                           won = "None" /\ won' # "None")
            \/ /\ tiles[i].state = "Covered" /\ tiles'[i].state = "FlagRevealed"
               /\ won = "None" /\ won' = "Some(true)"
       /\ won' = "None" => FlagRevealedTiles(tiles') = {}]_vars

\* A won game that shows a flag turned FlagRevealed beside a mine that the
\* reveal-all uncovered
C15_Witness ==
    /\ Running /\ won = "Some(true)"
    /\ FlagRevealedTiles(tiles) # {}
    /\ \E i \in DOMAIN tiles : tiles[i].state = "Uncovered" /\ tiles[i].mine

\* The Covered tiles the floods from the Covered zero-count tiles of N reach
FloodsFrom(N) ==
    UNION {CoveredZeroRegionWithBorder(j) :
             j \in {k \in N \cap CoveredTiles \cap ZeroTiles : ~tiles[k].mine}}

\* C16: an Uncover of an Uncovered tile with as many Flagged neighbours as its
\* count leaves none of its neighbours Covered (a zero-count one floods),
\* leaves the Flagged neighbours Flagged while the game goes on, and sets
\* won = Some(false) if and only if a Covered neighbour was a mine.
C16_Chord ==
    (Running /\ won = "None") =>
        \A x \in InXs, y \in InYs :
            LET pos == get_1d(x, y, width)
                b == push_state(Self, x, y, "Uncover", 0)
                mined == \E j \in Neighbours(pos) :
                            tiles[j].state = "Covered" /\ tiles[j].mine
            IN  (tiles[pos].state = "Uncovered" /\ ChordMatches(pos)) =>
                    /\ ~b.panicked
                    /\ \A j \in Neighbours(pos) : b.tiles[j].state # "Covered"
                    /\ b.won = "Some(false)" <=> mined
                    /\ b.won = "None" =>
                         \A i \in DOMAIN tiles :
                            b.tiles[i].state =
                                IF /\ tiles[i].state = "Covered"
                                   /\ \/ i \in Neighbours(pos)
                                      \/ i \in FloodsFrom(Neighbours(pos))
                                THEN "Uncovered" ELSE tiles[i].state

\* A chord is due that uncovers something and floods: the Uncovered tile has
\* a count of 1, one Flagged neighbour, and a Covered zero-count neighbour
C16_Witness ==
    /\ Running /\ won = "None"
    /\ \E pos \in DOMAIN tiles :
          /\ tiles[pos].state = "Uncovered"
          /\ tiles[pos].mines_surrounding = 1
          /\ ChordMatches(pos)
          /\ \E j \in Neighbours(pos) \cap ZeroTiles : tiles[j].state = "Covered"

\* C17: in every reachable state with won = None and for every Uncovered
\* tile, Flag and Uncover give the same board.
C17_FlagIsUncoverOnUncovered ==
    (Running /\ won = "None") =>
        \A x \in InXs, y \in InYs, r \in Draws :
            tiles[get_1d(x, y, width)].state = "Uncovered" =>
                push_state(Self, x, y, "Flag", r)
                    = push_state(Self, x, y, "Uncover", r)

\* An Uncovered tile on which either command chords into a Covered mine
C17_Witness ==
    /\ Running /\ won = "None"
    /\ \E pos \in DOMAIN tiles :
          /\ tiles[pos].state = "Uncovered"
          /\ ChordMatches(pos)
          /\ \E j \in Neighbours(pos) : tiles[j].state = "Covered" /\ tiles[j].mine

\* C18: with won = None, an Uncover of a Flagged tile, and an Uncover or Flag
\* of an Uncovered tile whose Flagged neighbours differ in number from its
\* count, change nothing: no tile, no counter, not first_uncover, not won.
C18_DefinedNoops ==
    (Running /\ won = "None") =>
        \A x \in InXs, y \in InYs, u \in {"Uncover", "Flag"}, r \in Draws :
            LET pos == get_1d(x, y, width)
            IN  (\/ tiles[pos].state = "Flagged" /\ u = "Uncover"
                 \/ tiles[pos].state = "Uncovered" /\ ~ChordMatches(pos))
                => push_state(Self, x, y, u, r) = Self

\* Both no-ops are at hand: a Flagged tile, and an Uncovered tile with a
\* Covered neighbour whose flags do not match its count
C18_Witness ==
    /\ Running /\ won = "None"
    /\ FlaggedTiles(tiles) # {}
    /\ \E pos \in DOMAIN tiles :
          /\ tiles[pos].state = "Uncovered"
          /\ ~ChordMatches(pos)
          /\ Neighbours(pos) \cap CoveredTiles # {}

\* C19: no counter underflows in any command: unflagging a Flagged tile goes
\* through and takes neither flag_total nor flag_correct below 0, the
\* relocation takes no mines_surrounding below 0, and mine_total - flag_total
\* is never negative. (A build with overflow checks panics on the
\* subtraction; a build without them wraps, here to a value below 0.)
C19_NoUnderflow ==
    (Running /\ won = "None") =>
        \A x \in InXs, y \in InYs, u \in {"Uncover", "Flag"}, r \in Draws :
            LET b == push_state(Self, x, y, u, r)
            IN  /\ ~b.panicked
                /\ b.flag_total >= 0
                /\ b.flag_correct >= 0
                /\ mine_total - b.flag_total >= 0
                /\ \A i \in DOMAIN b.tiles : b.tiles[i].mines_surrounding >= 0

\* C20 as claimed: the first Uncover command that is processed clears
\* first_uncover, whatever the state of its target tile.
C20_ClearedByAnyUncover ==
    (Running /\ won = "None") =>
        \A x \in InXs, y \in InYs, r \in Draws :
            ~push_state(Self, x, y, "Uncover", r).first_uncover

\* C20 as amended: first_uncover is cleared by the first Uncover of a Covered
\* tile; an Uncover of a Flagged tile leaves it as it is, and Flag never
\* touches it. Once it is false it stays false, no Uncover moves a mine, and
\* an Uncover of a Covered mine loses.
C20_ClearedByFirstReveal ==
    (Running /\ won = "None") =>
        \A x \in InXs, y \in InYs, r \in Draws :
            LET pos == get_1d(x, y, width)
                b == push_state(Self, x, y, "Uncover", r)
                f == push_state(Self, x, y, "Flag", r)
            IN  /\ tiles[pos].state = "Covered" => ~b.first_uncover
                /\ tiles[pos].state = "Flagged" => b.first_uncover = first_uncover
                /\ f.first_uncover = first_uncover
                /\ ~first_uncover =>
                     /\ ~b.first_uncover
                     /\ \A i \in DOMAIN tiles : b.tiles[i].mine = tiles[i].mine
                     /\ (tiles[pos].state = "Covered" /\ tiles[pos].mine)
                            => b.won = "Some(false)"

\* After the first reveal, with a flag placed and a Covered mine left that a
\* later Uncover would hit
C20_Witness ==
    /\ Running /\ won = "None" /\ ~first_uncover
    /\ FlaggedTiles(tiles) # {}
    /\ \E i \in CoveredTiles : tiles[i].mine

----------------------------------------------------------------------------
\* main and the clock thread

Locks == {"stdout", "cursor"}

Owner(l) == IF l = "stdout" THEN stdout_lock ELSE cursor_lock

\* main stands at a statement that waits for the lock l
MainWaits(l) ==
    IF l = "cursor" THEN main_pc = "lock"
    ELSE \/ main_pc \in {"quit", "refresh", "after_loop"}
         \/ main_pc = "move" /\ CanMove(key)
         \/ main_pc = "arm_end" /\ won # "None"

\* the clock thread stands at a statement that waits for the lock l
ClockWaits(l) ==
    IF l = "cursor" THEN clock_pc = "lock_pos" ELSE clock_pc = "lock_stdout"

\* C21: main and the clock thread never deadlock: in no reachable state does
\* main wait for a lock the clock holds while the clock waits for a lock main
\* holds.
C21_NoDeadlock ==
    ~ \E l1, l2 \in Locks :
         /\ MainWaits(l1) /\ Owner(l1) = "clock"
         /\ ClockWaits(l2) /\ Owner(l2) = "main"

\* main has sent false: the game has ended and refresh_board has passed its
\* send
FalseSent ==
    won # "None" /\ main_pc \in {"refresh_end", "arm_end", "after_loop", "exited"}

\* C22: once main has sent false, the wake-up of the clock that follows ends
\* the clock thread, however many true were sent before, so that it paints
\* no more; and the clock has painted nothing while it waits for the first
\* message.
C22_ClockStopsOnFalse ==
    /\ [](clock_pc = "recv" => time = 0)
    /\ [][(FalseSent /\ clock_pc = "sleep" /\ clock_pc' # "sleep")
             => clock_pc' = "returned"]_gvars

====
